---- MODULE Spec2Model ----
(***************************************************************************)
(* The repository-analysis Lambda of ai-demo-builder: handler.py and its   *)
(* collaborators github_client.py, gemini_client.py and file_scorer.py.    *)
(*                                                                         *)
(* Python values are modelled as follows.                                  *)
(*   str   a sequence of tokens (<<"src", "/", "index", ".js">>); the      *)
(*         tokens are the units the code's string operations cut at.       *)
(*   None  the one-token sequence None where a str is expected, the        *)
(*         record NoneObj where a dict is expected.                        *)
(*   dict  a record; "key in d" is key \in DOMAIN d.                       *)
(*   an exception leaving a function is the field raised of its result.    *)
(***************************************************************************)
EXTENDS Integers, Sequences, FiniteSets, TLC

VARIABLES
    table,      \* the DynamoDB cache table: a set of items
    pc,         \* "idle" | "running" | "done": the Lambda's invocation
    event,      \* the event of the current invocation
    env,        \* what every collaborator answers during this invocation
    outcome,    \* how the last invocation ended: "none" | "return" | "raise"
    result,     \* the value handler returned (NoneObj when it raised)
    exc,        \* the exception that left handler ("" when it returned)
    calls,      \* the collaborator operations handler invoked, in order
    invocations,\* number of invocations started
    probe,      \* the last direct call of a collaborator function and its value
    clock,      \* datetime.now() as direct calls of the cache functions see it, in days
    _github_token,   \* the global of github_client.py
    _gemini_api_key, \* the global of gemini_client.py
    callers,    \* where each caller of _get_credentials / get_api_key stands
    consulted,  \* what each credential source answered, in the order it was asked
    os_environ  \* the environment the process was started in

process_vars ==
    <<clock, _github_token, _gemini_api_key, callers, consulted, os_environ>>
vars == <<table, pc, event, env, outcome, result, exc, calls, invocations, probe,
          clock, _github_token, _gemini_api_key, callers, consulted, os_environ>>

\* the number of invocations one container serves
MaxInvocations == 2

\* ------------------------------------------------------------------ values

None == <<"\\None">>
NoneObj == [py_none |-> TRUE]

\* Python truthiness of a str-or-None value: `not v`
Falsy(v) == v = None \/ v = <<>>

\* dict.get(key, default)
PyGet(d, key, default) == IF key \in DOMAIN d THEN d[key] ELSE default

\* str.lower(), token by token
LowerTok(t) ==
    CASE t = "Acme" -> "acme"
      [] t = "Widgets" -> "widgets"
      [] t = "README" -> "readme"
      [] t = ".MD" -> ".md"
      [] t = "Vendor" -> "vendor"
      [] t = "Dockerfile" -> "dockerfile"
      [] OTHER -> t

Lower(s) == [i \in 1..Len(s) |-> LowerTok(s[i])]

\* s.endswith(suffix)
EndsWith(s, suffix) ==
    /\ Len(suffix) <= Len(s)
    /\ SubSeq(s, Len(s) - Len(suffix) + 1, Len(s)) = suffix

\* s.rstrip('/')
RECURSIVE RStripSlash(_)
RStripSlash(s) ==
    IF s # <<>> /\ s[Len(s)] = "/" THEN RStripSlash(SubSeq(s, 1, Len(s) - 1)) ELSE s

\* s.split('/'): the parts between the separators, [''] for the empty string
RECURSIVE SplitSlash(_)
SplitSlash(s) ==
    IF \A i \in 1..Len(s) : s[i] # "/"
    THEN <<s>>
    ELSE LET k == CHOOSE i \in 1..Len(s) :
                      s[i] = "/" /\ \A j \in 1..(i - 1) : s[j] # "/"
         IN <<SubSeq(s, 1, k - 1)>> \o SplitSlash(SubSeq(s, k + 1, Len(s)))

\* a call record: the collaborator operation and the path it was asked for
Call(op, arg) == [op |-> op, arg |-> arg]

\* ---------------------------------------------------------- github_client.py

ERROR_CODE ==
    [s \in {404, 401, 403, 409, 503, 500} |->
        CASE s = 404 -> "REPO_NOT_FOUND"
          [] s = 401 -> "GITHUB_TOKEN_INVALID"
          [] s = 403 -> "RATE_LIMIT_EXCEEDED"
          [] s = 409 -> "EMPTY_GITHUB_REPO"
          [] s = 503 -> "SERVICE_UNAVAILABLE"
          [] s = 500 -> "INTERNAL_SERVER_ERROR"]

\* create_response(status_code, data=None, error_code=None); NoCode is the
\* default error_code=None
NoCode == ""

create_response(status_code, data, error_code) ==
    [statusCode |-> status_code,
     body |-> IF status_code >= 400
              THEN [error_code |->
                        IF error_code # NoCode THEN error_code
                        ELSE IF status_code \in DOMAIN ERROR_CODE
                             THEN ERROR_CODE[status_code]
                             ELSE "UNKNOWN_ERROR"]
              ELSE [data |-> data]]

\* What requests.get does: a response with a status, or one of the
\* exceptions the callers catch.
HttpResponse(status) == [exc |-> "none", status |-> status]
HttpRaises(name) == [exc |-> name, status |-> 0]

\* the except clauses shared by the four GitHub calls
HttpExcept(reply) ==
    CASE reply.exc = "Timeout" -> create_response(503, NoneObj, "REQUEST_TIMEOUT")
      [] reply.exc = "ConnectionError" -> create_response(503, NoneObj, "CONNECTION_ERROR")
      [] OTHER -> create_response(500, NoneObj, NoCode)

\* get_repo_metadata(owner, repo): reply is what the GitHub API did, json the
\* decoded body of a 200 answer
get_repo_metadata(reply, json) ==
    IF reply.exc # "none" THEN HttpExcept(reply)
    ELSE IF reply.status # 200 THEN create_response(reply.status, NoneObj, NoCode)
    ELSE create_response(200,
            [name |-> PyGet(json, "name", None),
             description |-> PyGet(json, "description", None),
             stars |-> PyGet(json, "stargazers_count", None),
             topics |-> PyGet(json, "topics", <<>>),
             default_branch |-> PyGet(json, "default_branch", None),
             language |-> PyGet(json, "language", None),
             html_url |-> PyGet(json, "html_url", None)],
            NoCode)

\* get_latest_commit_sha(owner, repo, default_branch)
get_latest_commit_sha(reply, json) ==
    IF reply.exc # "none" THEN HttpExcept(reply)
    ELSE IF reply.status # 200 THEN create_response(reply.status, NoneObj, NoCode)
    ELSE create_response(200, [latest_commit_sha |-> PyGet(json, "sha", None)], NoCode)

\* get_file_tree(owner, repo, branch): tree is the "tree" list of the answer
RECURSIVE Blobs(_)
Blobs(tree) ==
    IF tree = <<>> THEN <<>>
    ELSE (IF Head(tree).type = "blob"
          THEN <<[path |-> Head(tree).path, size |-> Head(tree).size]>>
          ELSE <<>>) \o Blobs(Tail(tree))

get_file_tree(reply, tree) ==
    IF reply.exc # "none" THEN HttpExcept(reply)
    ELSE IF reply.status # 200 THEN create_response(reply.status, NoneObj, NoCode)
    ELSE LET files == Blobs(tree)
         IN create_response(200,
                [files |-> files, truncated |-> FALSE, file_count |-> Len(files)],
                NoCode)

\* get_file_content(owner, repo, path, max_size=100000): length is
\* len(response.text)
max_size == 100000

get_file_content(reply, path, length) ==
    IF reply.exc # "none" THEN HttpExcept(reply)
    ELSE IF reply.status # 200 THEN create_response(reply.status, NoneObj, NoCode)
    ELSE IF length > max_size
    THEN create_response(200,
            [path |-> path, content |-> None, size |-> length,
             skipped |-> TRUE, reason |-> "FILE_TOO_LARGE"], NoCode)
    ELSE create_response(200,
            [path |-> path, content |-> <<"content of">> \o path, size |-> length,
             skipped |-> FALSE], NoCode)

\* the parameters get_file_content accepts by keyword
get_file_content_params == {"owner", "repo", "path", "max_size"}

\* ------------------------------------------------------------ file_scorer.py
\* A path is tokenised canonically: "/" is a token, and every path segment is
\* cut before each "." ("src/app.test.js" is <<"src", "/", "app", ".test",
\* ".js">>).  A literal regular expression then matches at token borders,
\* except that its first literal may be the end of a longer name token and
\* its last literal the start of a longer one; the token classes below list
\* the tokens of the model's alphabet that end (start) with a given literal.

EndsWith_node_modules == {"node_modules"}
EndsWith_vendor == {"vendor"}
EndsWith_dist == {"dist", "redist"}
EndsWith_build == {"build"}
EndsWith_pycache == {"__pycache__"}
EndsWith_package_lock == {"package-lock"}
EndsWith_yarn == {"yarn"}
EndsWith_test == {"_test", "handler_test"}
StartsWith_woff == {".woff", ".woff2"}
StartsWith_dot ==
    {".js", ".ts", ".py", ".json", ".md", ".txt", ".go", ".png", ".lock", ".min",
     ".test", ".spec", ".git", ".map", ".css", ".woff", ".woff2", ".java", ".rs",
     ".cpp", ".c", ".yml", ".example", ".env"}

\* re.search of a two-literal pattern: a token of A directly followed by one of B
Search2(p, A, B) == \E i \in 1..(Len(p) - 1) : p[i] \in A /\ p[i + 1] \in B
\* re.search of a one-literal pattern
Search1(p, A) == \E i \in 1..Len(p) : p[i] \in A
\* the same patterns anchored with $
SearchEnd1(p, A) == p # <<>> /\ p[Len(p)] \in A
SearchEnd2(p, A, B) == Len(p) >= 2 /\ p[Len(p) - 1] \in A /\ p[Len(p)] \in B

\* SKIP_PATTERNS, in table order: whether pattern k matches path_lower
NSkipPatterns == 31

SkipPatternMatches(k, p) ==
    CASE k = 1 -> Search2(p, EndsWith_node_modules, {"/"})
      [] k = 2 -> Search2(p, EndsWith_vendor, {"/"})
      [] k = 3 -> Search2(p, {".git"}, {"/"})
      [] k = 4 -> Search2(p, EndsWith_dist, {"/"})
      [] k = 5 -> Search2(p, EndsWith_build, {"/"})
      [] k = 6 -> SearchEnd2(p, {".min"}, {".js"})
      [] k = 7 -> SearchEnd2(p, {".min"}, {".css"})
      [] k = 8 -> SearchEnd1(p, {".map"})
      [] k = 9 -> SearchEnd1(p, {".lock"})
      [] k = 10 -> SearchEnd2(p, EndsWith_package_lock, {".json"})
      [] k = 11 -> SearchEnd2(p, EndsWith_yarn, {".lock"})
      [] k = 12 -> SearchEnd1(p, {".png"})
      [] k = 13 -> SearchEnd1(p, {".jpg"})
      [] k = 14 -> SearchEnd1(p, {".jpeg"})
      [] k = 15 -> SearchEnd1(p, {".gif"})
      [] k = 16 -> SearchEnd1(p, {".svg"})
      [] k = 17 -> SearchEnd1(p, {".ico"})
      [] k = 18 -> Search1(p, StartsWith_woff)
      [] k = 19 -> SearchEnd1(p, {".ttf"})
      [] k = 20 -> SearchEnd1(p, {".eot"})
      [] k = 21 -> SearchEnd1(p, {".mp4"})
      [] k = 22 -> SearchEnd1(p, {".mp3"})
      [] k = 23 -> SearchEnd1(p, {".pdf"})
      [] k = 24 -> SearchEnd1(p, {".zip"})
      [] k = 25 -> SearchEnd1(p, {".tar"})
      [] k = 26 -> SearchEnd1(p, {".gz"})
      [] k = 27 -> Search2(p, EndsWith_pycache, {"/"})
      [] k = 28 -> SearchEnd1(p, {".pyc"})
      [] k = 29 -> Search2(p, {".test"}, StartsWith_dot)
      [] k = 30 -> Search2(p, {".spec"}, StartsWith_dot)
      [] k = 31 -> SearchEnd2(p, EndsWith_test, {".go"})

should_skip(path) ==
    LET path_lower == Lower(path)
    IN \E k \in 1..NSkipPatterns : SkipPatternMatches(k, path_lower)

\* FILE_SCORES: the filenames with a priority score
FileScoreTable ==
    {<<<<"package", ".json">>, 100>>, <<<<"requirements", ".txt">>, 100>>,
     <<<<"pyproject", ".toml">>, 100>>, <<<<"go", ".mod">>, 100>>,
     <<<<"cargo", ".toml">>, 100>>, <<<<"pom", ".xml">>, 100>>,
     <<<<"build", ".gradle">>, 100>>, <<<<"gemfile">>, 95>>,
     <<<<"composer", ".json">>, 95>>,
     <<<<"readme", ".md">>, 95>>, <<<<"readme">>, 95>>, <<<<"readme", ".txt">>, 95>>,
     <<<<"contributing", ".md">>, 60>>, <<<<"changelog", ".md">>, 50>>,
     <<<<"main", ".py">>, 90>>, <<<<"app", ".py">>, 90>>, <<<<"index", ".py">>, 90>>,
     <<<<"index", ".js">>, 90>>, <<<<"index", ".ts">>, 90>>, <<<<"index", ".tsx">>, 90>>,
     <<<<"main", ".js">>, 90>>, <<<<"main", ".ts">>, 90>>,
     <<<<"app", ".js">>, 85>>, <<<<"app", ".ts">>, 85>>, <<<<"app", ".tsx">>, 85>>,
     <<<<"main", ".go">>, 90>>, <<<<"main", ".rs">>, 90>>,
     <<<<"dockerfile">>, 70>>, <<<<"docker-compose", ".yml">>, 70>>,
     <<<<"docker-compose", ".yaml">>, 70>>, <<<<".env", ".example">>, 60>>,
     <<<<"tsconfig", ".json">>, 50>>, <<<<"webpack", ".config", ".js">>, 50>>,
     <<<<"vite", ".config", ".js">>, 50>>, <<<<"next", ".config", ".js">>, 50>>}

InFileScores(filename) == \E e \in FileScoreTable : e[1] = filename
FILE_SCORES(filename) == (CHOOSE e \in FileScoreTable : e[1] = filename)[2]

\* PATH_PATTERNS, in table order: the directory name between two "/" and its bonus
PATH_PATTERNS ==
    <<<<"routes", 40>>, <<"api", 40>>, <<"controllers", 40>>, <<"handlers", 35>>,
      <<"pages", 35>>, <<"views", 35>>, <<"components", 30>>, <<"services", 30>>,
      <<"models", 25>>, <<"src", 10>>, <<"lib", 10>>, <<"app", 10>>>>

PathPatternMatches(k, p) ==
    \E i \in 1..(Len(p) - 2) :
        p[i] = "/" /\ p[i + 1] = PATH_PATTERNS[k][1] /\ p[i + 2] = "/"

\* a loop over PATH_PATTERNS without the break: the bonuses of all matching
\* patterns from the k-th on, added up
RECURSIVE SumOfBonuses(_, _)
SumOfBonuses(k, p) ==
    IF k > Len(PATH_PATTERNS) THEN 0
    ELSE (IF PathPatternMatches(k, p) THEN PATH_PATTERNS[k][2] ELSE 0)
         + SumOfBonuses(k + 1, p)

PathBonusCumulative(p) == SumOfBonuses(1, p)

\* the loop over PATH_PATTERNS with its break: the first matching bonus
PathBonus(p) ==
    IF \E k \in 1..Len(PATH_PATTERNS) : PathPatternMatches(k, p)
    THEN LET k == CHOOSE j \in 1..Len(PATH_PATTERNS) :
                      /\ PathPatternMatches(j, p)
                      /\ \A h \in 1..(j - 1) : ~PathPatternMatches(h, p)
         IN PATH_PATTERNS[k][2]
    ELSE 0

\* path.count('/')
CountSlash(path) == Cardinality({i \in 1..Len(path) : path[i] = "/"})

\* the limit on a file's size in score_file
MaxFileSize == 500000

\* score_file with the size test written ">=": a file of exactly the limit
\* is dropped
score_file_limit_inclusive(path, size) ==
    IF should_skip(path) THEN -1
    ELSE IF size >= MaxFileSize THEN -1
    ELSE LET path_lower == Lower(path)
             parts == SplitSlash(path_lower)
             filename == parts[Len(parts)]
             s1 == IF InFileScores(filename) THEN FILE_SCORES(filename) ELSE 0
             s2 == s1 + PathBonus(path_lower)
             depth == CountSlash(path)
         IN IF depth <= 1 THEN s2 + 5 ELSE s2

score_file(path, size) ==
    IF should_skip(path) THEN -1
    ELSE IF size > MaxFileSize THEN -1
    ELSE LET path_lower == Lower(path)
             parts == SplitSlash(path_lower)
             filename == parts[Len(parts)]
             s1 == IF InFileScores(filename) THEN FILE_SCORES(filename) ELSE 0
             s2 == s1 + PathBonus(path_lower)
             depth == CountSlash(path)
         IN IF depth <= 1 THEN s2 + 5 ELSE s2

\* scored_files of get_high_value_files: the files with score >= 0, in input order
RECURSIVE ScoredFiles(_)
ScoredFiles(files) ==
    IF files = <<>> THEN <<>>
    ELSE LET file == Head(files)
             path == PyGet(file, "path", <<>>)
             size == PyGet(file, "size", 0)
             score == score_file(path, size)
         IN (IF score >= 0 THEN <<[path |-> path, score |-> score]>> ELSE <<>>)
            \o ScoredFiles(Tail(files))

\* list.sort(key=score, reverse=True): stable, descending; insertion of the
\* head behind every element that is not smaller
\* an insertion that puts the head before the elements of equal score: a
\* sort that does not keep the input order of ties
RECURSIVE InsertBeforeEqual(_, _)
InsertBeforeEqual(x, sorted) ==
    IF sorted = <<>> THEN <<x>>
    ELSE IF Head(sorted).score > x.score
         THEN <<Head(sorted)>> \o InsertBeforeEqual(x, Tail(sorted))
         ELSE <<x>> \o sorted

RECURSIVE InsertDesc(_, _)
InsertDesc(x, sorted) ==
    IF sorted = <<>> THEN <<x>>
    ELSE IF Head(sorted).score >= x.score
         THEN <<Head(sorted)>> \o InsertDesc(x, Tail(sorted))
         ELSE <<x>> \o sorted

RECURSIVE SortDesc(_)
SortDesc(xs) ==
    IF xs = <<>> THEN <<>>
    ELSE InsertDesc(xs[Len(xs)], SortDesc(SubSeq(xs, 1, Len(xs) - 1)))

\* xs[:n]; a negative n counts from the end of the list
Take(xs, n) ==
    LET stop == IF n < 0 THEN Len(xs) + n ELSE n
    IN SubSeq(xs, 1, IF Len(xs) < stop THEN Len(xs) ELSE stop)

get_high_value_files(files, max_files) ==
    LET scored_files == SortDesc(ScoredFiles(files))
        top == Take(scored_files, max_files)
    IN [i \in 1..Len(top) |-> top[i].path]

\* ---------------------------------------------------------- gemini_client.py
\* What one use of the Gemini SDK does, as the environment decides it:
\*   "no_key"      get_api_key() returns None
\*   "sdk_error"   genai.configure / genai.GenerativeModel raises (the calls
\*                 stand outside the try block)
\*   "api_error"   generate_content raises
\*   "parse_error" json.loads raises JSONDecodeError
\*   "ok"          the answer parses

\* [f.get("path", "") for f in files if f.get("path")]
RECURSIVE TreePaths(_)
TreePaths(files) ==
    IF files = <<>> THEN <<>>
    ELSE (IF ~Falsy(Head(files).path) THEN <<Head(files).path>> ELSE <<>>)
         \o TreePaths(Tail(files))

Range(xs) == {xs[i] : i \in 1..Len(xs)}

\* [file for file in files if file in file_tree]
RECURSIVE ValidFiles(_, _)
ValidFiles(answer, file_tree) ==
    IF answer = <<>> THEN <<>>
    ELSE (IF Head(answer) \in Range(file_tree) THEN <<Head(answer)>> ELSE <<>>)
         \o ValidFiles(Tail(answer), file_tree)

\* select_important_files(files, max_files): ai is the environment's answer
select_important_files(files, ai) ==
    IF ai.kind = "no_key" THEN [raised |-> "", value |-> <<>>]
    ELSE IF ai.kind = "sdk_error" THEN [raised |-> "AttributeError", value |-> <<>>]
    ELSE IF ai.kind = "ok"
         THEN [raised |-> "", value |-> ValidFiles(ai.paths, TreePaths(files))]
         ELSE [raised |-> "", value |-> <<>>]

\* generate_suggestions(metadata, file_tree, file_contents)
generate_suggestions(gen, suggestions) ==
    IF gen = "no_key"
    THEN [raised |-> "",
          value |-> [statusCode |-> 500,
                     body |-> [error_code |-> "GEMINI_API_KEY_NOT_FOUND"]]]
    ELSE IF gen = "sdk_error" THEN [raised |-> "AttributeError", value |-> NoneObj]
    ELSE IF gen = "ok"
    THEN [raised |-> "",
          value |-> [statusCode |-> 200,
                     body |-> [data |-> [suggestions |-> suggestions,
                                          suggestion_count |-> Len(suggestions)]]]]
    ELSE IF gen = "parse_error"
    THEN [raised |-> "",
          value |-> [statusCode |-> 500,
                     body |-> [error_code |-> "GEMINI_RESPONSE_PARSE_ERROR"]]]
    ELSE [raised |-> "",
          value |-> [statusCode |-> 500,
                     body |-> [error_code |-> "GEMINI_API_ERROR",
                               message |-> "str(e)"]]]

\* ------------------------------------------------------------------ handler.py

CACHE_TTL_DAYS == 7
MIN_FILES_THRESHOLD == 5

\* parse_github_url(github_url).  Line 38, `url = url.rstrip('/')`, makes url a
\* local of the function and reads it before anything is assigned to it: the
\* only name bound on entry is the parameter github_url.
ParseLocalsOnEntry == {"github_url"}

parse_github_url(github_url) ==
    IF "url" \notin ParseLocalsOnEntry
    THEN [raised |-> "UnboundLocalError", owner |-> None, repo |-> None]
    ELSE LET url == RStripSlash(github_url)
             parts == SplitSlash(url)
         IN IF Len(parts) < 2
            THEN [raised |-> "IndexError", owner |-> None, repo |-> None]
            ELSE LET owner == parts[Len(parts) - 1]
                     repo == parts[Len(parts)]
                 IN [raised |-> "",
                     owner |-> owner,
                     repo |-> IF EndsWith(repo, <<".git">>)
                              THEN SubSeq(repo, 1, Len(repo) - 1)
                              ELSE repo]

\* the item of the table stored under (cache_key, commit_sha), if any
ItemsAt(tbl, cache_key, commit_sha) ==
    {item \in tbl : item.repo_url = cache_key /\ item.commit_sha = commit_sha}

\* get_from_cache(cache_key, commit_sha): get_item answers ("ok") or raises
get_from_cache(tbl, get_item, cache_key, commit_sha) ==
    IF get_item = "raise" THEN NoneObj
    ELSE IF ItemsAt(tbl, cache_key, commit_sha) # {}
         THEN CHOOSE item \in ItemsAt(tbl, cache_key, commit_sha) : TRUE
         ELSE NoneObj

\* save_to_cache(cache_key, commit_sha, analysis, suggestions): the table
\* after put_item answered ("ok") or raised; now is datetime.now(), in days
save_to_cache(tbl, put_item, now, cache_key, commit_sha, analysis, suggestions) ==
    IF put_item = "raise" THEN tbl
    ELSE (tbl \ ItemsAt(tbl, cache_key, commit_sha))
         \cup {[repo_url |-> cache_key,
                commit_sha |-> commit_sha,
                analysis |-> analysis,
                suggestions |-> suggestions,
                created_at |-> now,
                ttl |-> now + CACHE_TTL_DAYS]}

\* The locals of one run of handler.  st is "run" while the body executes,
\* "return" once a return statement ran (its value in ret) and "raise" once an
\* exception left the function (its class in exc).
Entry(tbl) ==
    [st |-> "run", ret |-> NoneObj, exc |-> "", calls |-> <<>>, table |-> tbl,
     github_url |-> None, owner |-> None, repo |-> None, cache_key |-> None,
     metadata |-> NoneObj, default_branch |-> None, commit_sha |-> None,
     all_files |-> <<>>, file_count |-> 0,
     high_value_files |-> <<>>, selection_method |-> "",
     fallback_bound |-> FALSE, fallback_files |-> <<>>,
     file_contents |-> <<>>, suggestions |-> <<>>, analysis |-> NoneObj]

Return(c, value) == [c EXCEPT !.st = "return", !.ret = value]
Raise(c, e) == [c EXCEPT !.st = "raise", !.exc = e]
Invoked(c, op, arg) == [c EXCEPT !.calls = Append(@, Call(op, arg))]
ErrorResult(code) == [statusCode |-> 400, body |-> [error_code |-> code]]

\* the attributes of logging.Logger that are methods taking a message
LoggerMethods == {"debug", "info", "warning", "warn", "error", "exception", "critical"}

\* line 124: logger.loggin(...)
LogReceivedEvent(c) ==
    IF c.st # "run" THEN c
    ELSE IF "loggin" \notin LoggerMethods THEN Raise(c, "AttributeError") ELSE c

\* STEP 1, lines 130-144
ParseInput(c, ev) ==
    IF c.st # "run" THEN c
    ELSE LET github_url == PyGet(ev, "github_url", None)
         IN IF Falsy(github_url) THEN Return(c, ErrorResult("MISSING_GITHUB_URL"))
            ELSE LET parsed == parse_github_url(github_url)
                 IN IF parsed.raised # "" THEN Raise(c, parsed.raised)
                    ELSE LET c1 == [c EXCEPT !.github_url = github_url,
                                             !.owner = parsed.owner,
                                             !.repo = parsed.repo,
                                             !.cache_key = Lower(parsed.owner) \o <<"/">>
                                                           \o Lower(parsed.repo)]
                         IN IF Falsy(parsed.owner) \/ Falsy(parsed.repo)
                            THEN Return(c1, ErrorResult("INVALID_GITHUB_URL"))
                            ELSE c1

\* STEP 2, lines 151-159
GetMetadata(c, e) ==
    IF c.st # "run" THEN c
    ELSE LET c1 == Invoked(c, "metadata", <<>>)
             metadata_response == get_repo_metadata(e.meta, e.repo_json)
         IN IF metadata_response.statusCode # 200 THEN Return(c1, metadata_response)
            ELSE LET metadata == metadata_response.body.data
                 IN [c1 EXCEPT !.metadata = metadata,
                               !.default_branch =
                                   PyGet(metadata, "default_branch", <<"main">>)]

\* STEP 3, lines 164-172
GetCommitSha(c, e) ==
    IF c.st # "run" THEN c
    ELSE LET c1 == Invoked(c, "commit", <<>>)
             commit_response == get_latest_commit_sha(e.commit, e.commit_json)
         IN IF commit_response.statusCode # 200 THEN [c1 EXCEPT !.commit_sha = None]
            ELSE LET data == commit_response.body.data
                 IN IF "sha" \notin DOMAIN data THEN Raise(c1, "KeyError")
                    ELSE [c1 EXCEPT !.commit_sha = data["sha"]]

\* STEP 4, lines 178-187
CheckCache(c, e) ==
    IF c.st # "run" THEN c
    ELSE IF Falsy(c.commit_sha) THEN c
    ELSE LET c1 == Invoked(c, "cache_get", <<>>)
             cached == get_from_cache(c.table, e.cache_get, c.cache_key, c.commit_sha)
         IN IF cached # NoneObj
            THEN Return(c1, [analysis |-> PyGet(cached, "analysis", NoneObj),
                             suggestions |-> PyGet(cached, "suggestions", None),
                             from_cache |-> TRUE])
            ELSE c1

\* STEP 5, lines 192-206
GetFileTree(c, e) ==
    IF c.st # "run" THEN c
    ELSE LET c1 == Invoked(c, "tree", <<>>)
             tree_response == get_file_tree(e.tree, e.tree_json)
         IN IF tree_response.statusCode # 200 THEN Return(c1, tree_response)
            ELSE LET data == tree_response.body.data
                     c2 == [c1 EXCEPT !.all_files = data.files,
                                      !.file_count = data.file_count]
                 IN IF data.file_count = 0
                    THEN Return(c2, ErrorResult("EMPTY_REPOSITORY"))
                    ELSE c2

\* list(set(xs)): the distinct elements of xs in the iteration order of the
\* set, which str hashing decides; order lists every path in that order
RECURSIVE ListOfSet(_, _)
ListOfSet(xs, order) ==
    IF order = <<>> THEN <<>>
    ELSE (IF Head(order) \in Range(xs) THEN <<Head(order)>> ELSE <<>>)
         \o ListOfSet(xs, Tail(order))

fallback_extensions == {".py", ".js", ".ts", ".java", ".go", ".rs", ".cpp", ".c"}

\* [f["path"] for f in all_files if any(f["path"].endswith(ext) ...)]
RECURSIVE FallbackCandidates(_)
FallbackCandidates(files) ==
    IF files = <<>> THEN <<>>
    ELSE LET path == Head(files).path
         IN (IF \E ext \in fallback_extensions : EndsWith(path, <<ext>>)
             THEN <<path>> ELSE <<>>) \o FallbackCandidates(Tail(files))

\* STEP 6, lines 211-229: rule-based selection and the hybrid merge
SelectHybrid(c, e) ==
    IF c.st # "run" THEN c
    ELSE LET high_value_files == get_high_value_files(c.all_files, 10)
             c1 == [c EXCEPT !.high_value_files = high_value_files,
                             !.selection_method = "rule-based"]
         IN IF Len(high_value_files) >= MIN_FILES_THRESHOLD THEN c1
            ELSE LET c2 == Invoked(c1, "ai", <<>>)
                     ai_selected == select_important_files(c.all_files, e.ai)
                 IN IF ai_selected.raised # "" THEN Raise(c2, ai_selected.raised)
                    ELSE IF ai_selected.value = <<>> THEN c2
                    ELSE LET combined ==
                                 Take(ListOfSet(high_value_files \o ai_selected.value,
                                                e.order), 10)
                         IN IF Len(combined) > Len(high_value_files)
                            THEN [c2 EXCEPT !.high_value_files = combined,
                                            !.selection_method = "hybrid"]
                            ELSE c2

\* STEP 6, lines 232-248: the fallback.  fallback_files is assigned only inside
\* the if of line 232 and read by line 239 in every run.
SelectFallback(c) ==
    IF c.st # "run" THEN c
    ELSE LET c1 == IF Len(c.high_value_files) = 0 /\ c.file_count > 0
                   THEN [c EXCEPT !.fallback_bound = TRUE,
                                  !.fallback_files =
                                      Take(FallbackCandidates(c.all_files), 5)]
                   ELSE c
         IN IF ~c1.fallback_bound THEN Raise(c1, "UnboundLocalError")
            ELSE LET c2 == IF c1.fallback_files # <<>>
                           THEN [c1 EXCEPT !.high_value_files = c1.fallback_files,
                                           !.selection_method = "fallback"]
                           ELSE c1
                 IN IF Len(c2.high_value_files) = 0
                    THEN Return(c2, ErrorResult("NO_ANALYZABLE_FILES"))
                    ELSE c2

\* file_contents[file_path] = content on a dict kept as a list of pairs
DictSet(d, k, v) ==
    IF \E i \in 1..Len(d) : d[i].key = k
    THEN [i \in 1..Len(d) |-> IF d[i].key = k THEN [key |-> k, value |-> v] ELSE d[i]]
    ELSE Append(d, [key |-> k, value |-> v])

DictKeys(d) == [i \in 1..Len(d) |-> d[i].key]

\* the keywords of the call at line 256
ContentCallKeywords == {"owner", "repo", "file_path"}

\* STEP 7, lines 255-266: the loop over high_value_files
RECURSIVE FetchLoop(_, _, _)
FetchLoop(c, e, paths) ==
    IF c.st # "run" \/ paths = <<>> THEN c
    ELSE IF ~(ContentCallKeywords \subseteq get_file_content_params)
    THEN Raise(c, "TypeError")
    ELSE LET file_path == Head(paths)
             c1 == Invoked(c, "content", file_path)
             content_response ==
                 get_file_content(e.content[file_path].reply, file_path,
                                  e.content[file_path].length)
             c2 == IF content_response.statusCode = 200
                      /\ ~content_response.body.data.skipped
                   THEN [c1 EXCEPT !.file_contents =
                             DictSet(@, file_path, content_response.body.data.content)]
                   ELSE c1
         IN FetchLoop(c2, e, Tail(paths))

\* STEP 7, lines 253-274
FetchContents(c, e) ==
    IF c.st # "run" THEN c
    ELSE LET c1 == FetchLoop(c, e, c.high_value_files)
         IN IF c1.st # "run" THEN c1
            ELSE IF Len(c1.file_contents) = 0
                 THEN Return(c1, ErrorResult("NO_FILE_CONTENT_FETCHED"))
                 ELSE c1

\* STEP 8, lines 279-292
GenerateSuggestions(c, e) ==
    IF c.st # "run" THEN c
    ELSE LET c1 == Invoked(c, "generate", <<>>)
             gemini_response == generate_suggestions(e.gen, e.suggestions)
         IN IF gemini_response.raised # "" THEN Raise(c1, gemini_response.raised)
            ELSE IF gemini_response.value.statusCode # 200
                 THEN Return(c1, gemini_response.value)
                 ELSE [c1 EXCEPT !.suggestions =
                                     gemini_response.value.body.data.suggestions]

\* STEP 9, lines 297-308
BuildAnalysis(c) ==
    IF c.st # "run" THEN c
    ELSE [c EXCEPT !.analysis =
             [repo_name |-> PyGet(c.metadata, "name", None),
              description |-> PyGet(c.metadata, "description", None),
              language |-> PyGet(c.metadata, "language", None),
              stars |-> PyGet(c.metadata, "stars", None),
              topics |-> PyGet(c.metadata, "topics", None),
              html_url |-> PyGet(c.metadata, "html_url", None),
              default_branch |-> c.default_branch,
              file_count |-> c.file_count,
              files_analyzed |-> DictKeys(c.file_contents),
              selection_method |-> c.selection_method]]

\* STEP 10, lines 313-314: the first argument is github_url
SaveToCache(c, e) ==
    IF c.st # "run" THEN c
    ELSE IF Falsy(c.commit_sha) THEN c
    ELSE [Invoked(c, "cache_put", <<>>) EXCEPT !.table =
             save_to_cache(c.table, e.cache_put, e.now, c.github_url, c.commit_sha,
                           c.analysis, c.suggestions)]

\* STEP 11, lines 319-323
ReturnResults(c) ==
    IF c.st # "run" THEN c
    ELSE Return(c, [analysis |-> c.analysis,
                    suggestions |-> c.suggestions,
                    from_cache |-> FALSE])

\* handler(event, context): the run of the whole body against the table tbl,
\* with the collaborators answering as e says.  AfterStepN is the set holding
\* the locals once the steps up to N have run (a step leaves a run that has
\* returned or raised as it is).
AfterLog(tbl) == {LogReceivedEvent(Entry(tbl))}
AfterStep1(ev, tbl) == {ParseInput(c, ev) : c \in AfterLog(tbl)}
AfterStep2(ev, e, tbl) == {GetMetadata(c, e) : c \in AfterStep1(ev, tbl)}
AfterStep3(ev, e, tbl) == {GetCommitSha(c, e) : c \in AfterStep2(ev, e, tbl)}
AfterStep4(ev, e, tbl) == {CheckCache(c, e) : c \in AfterStep3(ev, e, tbl)}
AfterStep5(ev, e, tbl) == {GetFileTree(c, e) : c \in AfterStep4(ev, e, tbl)}
AfterHybrid(ev, e, tbl) == {SelectHybrid(c, e) : c \in AfterStep5(ev, e, tbl)}
AfterStep6(ev, e, tbl) == {SelectFallback(c) : c \in AfterHybrid(ev, e, tbl)}
AfterStep7(ev, e, tbl) == {FetchContents(c, e) : c \in AfterStep6(ev, e, tbl)}
AfterStep8(ev, e, tbl) == {GenerateSuggestions(c, e) : c \in AfterStep7(ev, e, tbl)}
AfterStep9(ev, e, tbl) == {BuildAnalysis(c) : c \in AfterStep8(ev, e, tbl)}
AfterStep10(ev, e, tbl) == {SaveToCache(c, e) : c \in AfterStep9(ev, e, tbl)}

handler(ev, e, tbl) == {ReturnResults(c) : c \in AfterStep10(ev, e, tbl)}

\* ------------------------------------------------------- inputs of the model

UrlAcme == <<"https:", "/", "/", "github.com", "/", "Acme", "/", "Widgets">>
UrlAcmeLower == <<"https:", "/", "/", "github.com", "/", "acme", "/", "widgets">>
UrlAcmeGit == UrlAcme \o <<".git">>
UrlAcmeSlash == UrlAcme \o <<"/">>
UrlNoOwner == <<"/", "widgets">>
UrlNoSlash == <<"widgets">>
KeyAcme == <<"acme", "/", "widgets">>

\* the events the Lambda is invoked with
Events ==
    {[source |-> <<"no url">>],
     [github_url |-> None],
     [github_url |-> <<>>],
     [github_url |-> UrlAcme],
     [github_url |-> UrlAcmeLower],
     [github_url |-> UrlAcmeGit],
     [github_url |-> UrlAcmeSlash],
     [github_url |-> UrlNoOwner],
     [github_url |-> UrlNoSlash]}

\* the identifiers that name the repository acme/widgets
AcmeUrls == {UrlAcme, UrlAcmeLower, UrlAcmeGit, UrlAcmeSlash}

P_package == <<"package", ".json">>
P_index == <<"src", "/", "index", ".js">>
P_node_module == <<"node_modules", "/", "x", ".js">>
P_readme == <<"README", ".MD">>
P_main == <<"main", ".py">>
P_routes == <<"app", "/", "routes", "/", "users", ".py">>
P_docker == <<"Dockerfile">>
P_logo == <<"logo", ".png">>
P_vendored == <<"Vendor", "/", "lib", ".py">>
P_ghost == <<"src", "/", "ghost", ".js">>
P_vendor_package == <<"vendor", "/", "package", ".json">>
P_unit_test == <<"src", "/", "app", ".test", ".js">>
P_redist == <<"redist", "/", "main", ".py">>
P_deep == <<"a", "/", "b", "/", "util", ".py">>
P_styles == <<"styles", ".min", ".css">>
P_nested == <<"web", "/", "src", "/", "api", "/", "index", ".js">>

\* ten paths a skip rule excludes
SkippedPaths ==
    <<P_node_module, P_logo, P_vendored, P_vendor_package, P_unit_test, P_redist,
      P_styles, <<"dist", "/", "bundle", ".js">>, <<"build", "/", "out", ".js">>,
      <<"yarn", ".lock">>>>

Blob(path, size) == [path |-> path, type |-> "blob", size |-> size]

TreeEmpty == <<[path |-> <<"src">>, type |-> "tree", size |-> 0]>>
TreeA == <<Blob(P_package, 500), [path |-> <<"src">>, type |-> "tree", size |-> 0],
           Blob(P_index, 1200), Blob(P_node_module, 900)>>
TreeBig == <<Blob(P_readme, 300), Blob(P_package, 500), Blob(P_main, 800),
             Blob(P_routes, 700), Blob(P_docker, 100), Blob(P_index, 1200),
             Blob(P_logo, 4000)>>
TreeSkipped == <<Blob(P_logo, 4000), Blob(P_vendored, 600)>>
TreeAssets == <<Blob(P_logo, 4000)>>
\* one file the scorer accepts and ten it skips
TreeWide == <<Blob(P_main, 800)>> \o [i \in 1..Len(SkippedPaths) |-> Blob(SkippedPaths[i], 100)]

PathUniverse ==
    <<P_package, P_index, P_node_module, P_readme, P_main, P_routes, P_docker,
      P_logo, P_vendored, P_ghost>> \o SubSeq(SkippedPaths, 4, Len(SkippedPaths))

Reverse(xs) == [i \in 1..Len(xs) |-> xs[Len(xs) + 1 - i]]

Fetched(length) == [reply |-> HttpResponse(200), length |-> length]
ContentAllOk == [p \in Range(PathUniverse) |-> Fetched(1000)]
ContentAllMissing ==
    [p \in Range(PathUniverse) |-> [reply |-> HttpResponse(404), length |-> 0]]
ContentMixed ==
    [p \in Range(PathUniverse) |->
        IF p = P_package THEN Fetched(200000)
        ELSE IF p = P_index THEN [reply |-> HttpRaises("Timeout"), length |-> 0]
        ELSE Fetched(1000)]

Sha1 == <<"c1">>
Sha2 == <<"c2">>
RepoJson ==
    [name |-> <<"Widgets">>, description |-> <<"widget factory">>,
     stargazers_count |-> <<"42">>, topics |-> <<"demo">>,
     default_branch |-> <<"main">>, language |-> <<"JavaScript">>,
     html_url |-> UrlAcme]
Suggestions1 == <<"intro clip", "api clip", "deploy clip">>
Suggestions2 == <<"overview clip">>

AiAnswer(kind, paths) == [kind |-> kind, paths |-> paths]

\* the environment in which every collaborator succeeds
BaseEnv ==
    [meta |-> HttpResponse(200), repo_json |-> RepoJson,
     commit |-> HttpResponse(200), commit_json |-> [sha |-> Sha1],
     cache_get |-> "ok",
     tree |-> HttpResponse(200), tree_json |-> TreeA,
     ai |-> AiAnswer("ok", <<P_index, P_ghost, P_node_module>>),
     order |-> PathUniverse,
     content |-> ContentAllOk,
     gen |-> "ok", suggestions |-> Suggestions1,
     cache_put |-> "ok", now |-> 0]

HttpFailures ==
    {HttpResponse(204), HttpResponse(304), HttpResponse(401), HttpResponse(403),
     HttpResponse(404), HttpResponse(409), HttpResponse(418), HttpResponse(429),
     HttpResponse(500), HttpResponse(502), HttpResponse(503),
     HttpRaises("Timeout"), HttpRaises("ConnectionError"),
     HttpRaises("RequestException")}

\* the other answers of each collaborator
Alternatives ==
    [meta |-> HttpFailures,
     repo_json |-> {[name |-> <<"Widgets">>]},
     commit |-> {HttpResponse(404), HttpResponse(409), HttpRaises("Timeout")},
     commit_json |-> {[sha |-> Sha2], [node_id |-> <<"n1">>]},
     cache_get |-> {"raise"},
     tree |-> {HttpResponse(404), HttpResponse(304), HttpResponse(502),
               HttpRaises("ConnectionError")},
     tree_json |-> {TreeEmpty, TreeBig, TreeSkipped, TreeAssets},
     ai |-> {AiAnswer("no_key", <<>>), AiAnswer("sdk_error", <<>>),
             AiAnswer("api_error", <<>>), AiAnswer("parse_error", <<>>),
             AiAnswer("ok", <<>>), AiAnswer("ok", <<P_package, P_package>>)},
     order |-> {Reverse(PathUniverse)},
     content |-> {ContentAllMissing, ContentMixed},
     gen |-> {"no_key", "sdk_error", "api_error", "parse_error"},
     suggestions |-> {Suggestions2},
     cache_put |-> {"raise"},
     now |-> {3}]

\* the environments that differ from e in one answer
Vary(e) ==
    UNION {{[e EXCEPT ![f] = v] : v \in Alternatives[f]} : f \in DOMAIN Alternatives}

Envs1 == {BaseEnv} \cup Vary(BaseEnv)

\* a tree of eleven files of which the AI selector names the ten skipped ones
WideEnv == [BaseEnv EXCEPT !.tree_json = TreeWide, !.ai = AiAnswer("ok", SkippedPaths)]

\* an iteration order of the set of paths in which main.py comes last
MainLast ==
    LET NotMain(p) == p # P_main
    IN SelectSeq(PathUniverse, NotMain) \o <<P_main>>

\* every environment with at most two answers other than BaseEnv's, and the
\* wide tree under two iteration orders
Envs ==
    Envs1 \cup UNION {Vary(e) : e \in Envs1}
          \cup {WideEnv, [WideEnv EXCEPT !.order = MainLast]}

\* an entry of the cache as a successful run for acme/widgets would write it
StoredAnalysis ==
    [repo_name |-> <<"Widgets">>, description |-> <<"widget factory">>,
     language |-> <<"JavaScript">>, stars |-> <<"42">>, topics |-> <<"demo">>,
     html_url |-> UrlAcme, default_branch |-> <<"main">>, file_count |-> 3,
     files_analyzed |-> <<P_package, P_index>>, selection_method |-> "hybrid"]

StoredItem(key, sha) ==
    [repo_url |-> key, commit_sha |-> sha, analysis |-> StoredAnalysis,
     suggestions |-> Suggestions2, created_at |-> 0, ttl |-> CACHE_TTL_DAYS]

\* the contents the table may have when the Lambda starts
InitialTables == {{}, {StoredItem(KeyAcme, Sha1)}, {StoredItem(UrlAcme, Sha1)}}

\* the callers of the credential functions inside one process, and a caller
\* that is in neither function
Callers == {1, 2}
Idle == [fn |-> "none", at |-> "out", ret |-> None]

\* os.environ and the installation as the credential functions see them:
\* whether AWS_LAMBDA_RUNTIME_API and the two parameter names are set, whether
\* python-dotenv can be imported, and what GITHUB_TOKEN / GEMINI_API_KEY are
\* once load_dotenv() has run
GithubToken == <<"ghp_token">>
GeminiKey == <<"gemini_key">>
OnLambda ==
    [AWS_LAMBDA_RUNTIME_API |-> TRUE, GITHUB_PARAM_NAME |-> TRUE,
     GEMINI_PARAM_NAME |-> TRUE, dotenv |-> FALSE,
     GITHUB_TOKEN |-> None, GEMINI_API_KEY |-> None]
Deployments ==
    {OnLambda,
     [OnLambda EXCEPT !.GITHUB_PARAM_NAME = FALSE, !.GEMINI_PARAM_NAME = FALSE],
     [OnLambda EXCEPT !.AWS_LAMBDA_RUNTIME_API = FALSE],
     [OnLambda EXCEPT !.AWS_LAMBDA_RUNTIME_API = FALSE, !.dotenv = TRUE],
     [OnLambda EXCEPT !.AWS_LAMBDA_RUNTIME_API = FALSE, !.dotenv = TRUE,
                      !.GITHUB_TOKEN = GithubToken, !.GEMINI_API_KEY = GeminiKey]}

\* ------------------------------------------------------------ the Lambda

Started ==
    /\ table \in InitialTables
    /\ pc = "idle"
    /\ event = [source |-> <<"no url">>]
    /\ env = BaseEnv
    /\ outcome = "none"
    /\ result = NoneObj
    /\ exc = ""
    /\ calls = <<>>
    /\ invocations = 0
    /\ probe = [fn |-> "none"]
    /\ clock = 0
    /\ _github_token = None
    /\ _gemini_api_key = None
    /\ callers = [t \in Callers |-> Idle]
    /\ consulted = [github |-> <<>>, gemini |-> <<>>]

\* the Lambda is started by the AWS runtime with both parameter names set
Init == Started /\ os_environ = OnLambda

\* the runtime delivers an event; the collaborators' answers for this
\* invocation are fixed
Invoke ==
    /\ pc = "idle"
    /\ invocations < MaxInvocations
    /\ \E ev \in Events, e \in Envs :
        /\ event' = ev
        /\ env' = e
    /\ pc' = "running"
    /\ outcome' = "none"
    /\ result' = NoneObj
    /\ exc' = ""
    /\ calls' = <<>>
    /\ invocations' = invocations + 1
    /\ UNCHANGED <<table, probe>>
    /\ UNCHANGED process_vars

\* handler runs to its end
Handle ==
    /\ pc = "running"
    /\ \E c \in handler(event, env, table) :
          /\ table' = c.table
          /\ outcome' = c.st
          /\ result' = c.ret
          /\ exc' = c.exc
          /\ calls' = c.calls
    /\ pc' = "done"
    /\ UNCHANGED <<event, env, invocations, probe>>
    /\ UNCHANGED process_vars

\* the runtime hands the outcome to the caller and waits for the next event
Respond ==
    /\ pc = "done"
    /\ pc' = "idle"
    /\ event' = [source |-> <<"no url">>]
    /\ env' = BaseEnv
    /\ outcome' = "none"
    /\ result' = NoneObj
    /\ exc' = ""
    /\ calls' = <<>>
    /\ UNCHANGED <<table, invocations, probe>>
    /\ UNCHANGED process_vars

Next == Invoke \/ Handle \/ Respond

Spec == Init /\ [][Next]_vars

\* ------------------------------------------- the collaborators, called alone
\* The functions of github_client.py and gemini_client.py applied to every
\* answer of the service behind them.

Replies == {HttpResponse(200)} \cup HttpFailures
lambda_vars ==
    <<table, pc, event, env, outcome, result, exc, calls, invocations,
      clock, _github_token, _gemini_api_key, callers, consulted, os_environ>>

CallGetRepoMetadata ==
    /\ \E reply \in Replies, json \in {RepoJson, [name |-> <<"Widgets">>]} :
        probe' = [fn |-> "get_repo_metadata", reply |-> reply,
                  response |-> get_repo_metadata(reply, json)]
    /\ UNCHANGED lambda_vars

CallGetLatestCommitSha ==
    /\ \E reply \in Replies, json \in {[sha |-> Sha1], [sha |-> Sha2]} :
        probe' = [fn |-> "get_latest_commit_sha", reply |-> reply,
                  response |-> get_latest_commit_sha(reply, json)]
    /\ UNCHANGED lambda_vars

CallGetFileTree ==
    /\ \E reply \in Replies, tree \in {TreeEmpty, TreeA, TreeBig, TreeSkipped} :
        probe' = [fn |-> "get_file_tree", reply |-> reply,
                  response |-> get_file_tree(reply, tree)]
    /\ UNCHANGED lambda_vars

CallGetFileContent ==
    /\ \E reply \in Replies, path \in Range(PathUniverse),
          length \in {0, max_size, max_size + 1} :
        probe' = [fn |-> "get_file_content", reply |-> reply,
                  response |-> get_file_content(reply, path, length)]
    /\ UNCHANGED lambda_vars

CallGenerateSuggestions ==
    /\ \E gen \in {"ok", "no_key", "api_error", "parse_error"},
          suggestions \in {Suggestions1, Suggestions2} :
        probe' = [fn |-> "generate_suggestions", reply |-> gen,
                  response |-> generate_suggestions(gen, suggestions).value]
    /\ UNCHANGED lambda_vars

NextCollaborators ==
    \/ CallGetRepoMetadata
    \/ CallGetLatestCommitSha
    \/ CallGetFileTree
    \/ CallGetFileContent
    \/ CallGenerateSuggestions

SpecCollaborators == Init /\ [][NextCollaborators]_vars

\* ------------------------------------------------ file_scorer.py, called alone
\* score_file and get_high_value_files applied to paths, sizes and file lists.

ScorerPaths ==
    Range(PathUniverse)
        \cup {P_vendor_package, P_unit_test, P_redist, P_deep, P_styles, P_nested,
              <<>>}
ScorerSizes == {0, 1200, MaxFileSize, MaxFileSize + 1}

\* the entries a file list is made of; one of them has no size
ScorerFiles ==
    {Blob(P_package, 500), Blob(P_main, 800), Blob(P_index, 1200),
     Blob(P_node_module, 900), Blob(P_deep, MaxFileSize + 1),
     [path |-> P_deep, type |-> "blob"]}

MaxListLen == 3
FileLists ==
    UNION {[1..n -> ScorerFiles] : n \in 0..MaxListLen} \cup {TreeA, TreeBig}
MaxFilesArgs == {0, 1, 2, 10}

CallScoreFile ==
    /\ probe.fn = "none"
    /\ \E path \in ScorerPaths, size \in ScorerSizes :
        probe' = [fn |-> "score_file", path |-> path, size |-> size,
                  value |-> score_file(path, size)]
    /\ UNCHANGED lambda_vars

CallGetHighValueFiles ==
    /\ probe.fn = "none"
    /\ \E files \in FileLists, max_files \in MaxFilesArgs :
        probe' = [fn |-> "get_high_value_files", files |-> files,
                  max_files |-> max_files,
                  value |-> get_high_value_files(files, max_files)]
    /\ UNCHANGED lambda_vars

\* the caller takes the value; the next call may start
ScorerReturns ==
    /\ probe.fn \in {"score_file", "get_high_value_files"}
    /\ probe' = [fn |-> "none"]
    /\ UNCHANGED lambda_vars

NextScorer == CallScoreFile \/ CallGetHighValueFiles \/ ScorerReturns

SpecScorer == Init /\ [][NextScorer]_vars

\* --------------------------------------- the cache functions, called alone
\* get_from_cache and save_to_cache applied to the table while time passes
\* and DynamoDB deletes expired items some time after their ttl.

MaxClock == 8
CacheKeys == {KeyAcme}
CacheShas == {Sha1, Sha2}
cache_vars ==
    <<pc, event, env, outcome, result, exc, calls, invocations,
      _github_token, _gemini_api_key, callers, consulted, os_environ>>

CallSaveToCache ==
    /\ \E cache_key \in CacheKeys, commit_sha \in CacheShas,
          suggestions \in {Suggestions1, Suggestions2},
          put_item \in {"ok", "raise"} :
        /\ table' = save_to_cache(table, put_item, clock, cache_key, commit_sha,
                                  StoredAnalysis, suggestions)
        /\ probe' = [fn |-> "save_to_cache", cache_key |-> cache_key,
                     commit_sha |-> commit_sha, now |-> clock,
                     value |-> (put_item = "ok")]
    /\ UNCHANGED <<clock, cache_vars>>

CallGetFromCache ==
    /\ \E cache_key \in CacheKeys, commit_sha \in CacheShas,
          get_item \in {"ok", "raise"} :
        probe' = [fn |-> "get_from_cache", cache_key |-> cache_key,
                  commit_sha |-> commit_sha, now |-> clock,
                  value |-> get_from_cache(table, get_item, cache_key, commit_sha)]
    /\ UNCHANGED <<table, clock, cache_vars>>

\* a day passes
Tick ==
    /\ clock < MaxClock
    /\ clock' = clock + 1
    /\ UNCHANGED <<table, probe, cache_vars>>

\* the table's TTL process deletes an item whose ttl has passed
Evict ==
    /\ \E item \in table :
        /\ item.ttl < clock
        /\ table' = table \ {item}
    /\ UNCHANGED <<probe, clock, cache_vars>>

NextCache == CallSaveToCache \/ CallGetFromCache \/ Tick \/ Evict

SpecCache == Init /\ [][NextCache]_vars

\* ------------------------------------ the credential functions, called alone
\* _get_credentials and get_api_key called by the callers of one process.  A
\* call is two steps, the test of the global and the resolution, so that two
\* calls can overlap; ssm get_parameter answers a value, raises ClientError,
\* or raises an error that is not a ClientError.

MaxConsults == 3
SsmAnswers(value) == {value, <<"\\ClientError">>, <<"\\BotoCoreError">>}
InitCredentials == Started /\ os_environ \in Deployments
credentials_vars ==
    <<table, pc, event, env, outcome, result, exc, calls, invocations, probe,
      clock, os_environ>>

Returns(t, fn, value) ==
    callers' = [callers EXCEPT ![t] = [fn |-> fn, at |-> "returned", ret |-> value]]
Raises(t, fn) ==
    callers' = [callers EXCEPT ![t] = [fn |-> fn, at |-> "raised", ret |-> None]]

\* lines 40-42: the global is returned when it is not None
GetCredentialsEnter(t) ==
    /\ callers[t].at = "out"
    /\ IF _github_token # None
       THEN Returns(t, "_get_credentials", _github_token)
       ELSE callers' = [callers EXCEPT ![t] =
                           [fn |-> "_get_credentials", at |-> "resolving", ret |-> None]]
    /\ UNCHANGED <<_github_token, _gemini_api_key, consulted, credentials_vars>>

\* lines 44-83
GetCredentialsResolve(t) ==
    /\ callers[t].fn = "_get_credentials" /\ callers[t].at = "resolving"
    /\ IF os_environ.AWS_LAMBDA_RUNTIME_API
       THEN IF ~os_environ.GITHUB_PARAM_NAME
            THEN /\ Returns(t, "_get_credentials", None)
                 /\ UNCHANGED <<_github_token, consulted>>
            ELSE /\ Len(consulted.github) < MaxConsults
                 /\ \E answer \in SsmAnswers(GithubToken) :
                      /\ consulted' = [consulted EXCEPT !.github = Append(@, answer)]
                      /\ CASE answer = <<"\\ClientError">> ->
                                /\ Returns(t, "_get_credentials", None)
                                /\ UNCHANGED _github_token
                           [] answer = <<"\\BotoCoreError">> ->
                                /\ Raises(t, "_get_credentials")
                                /\ UNCHANGED _github_token
                           [] OTHER ->
                                /\ _github_token' = answer
                                /\ Returns(t, "_get_credentials", answer)
       ELSE IF ~os_environ.dotenv
            THEN /\ Returns(t, "_get_credentials", None)
                 /\ UNCHANGED <<_github_token, consulted>>
            ELSE /\ Len(consulted.github) < MaxConsults
                 /\ consulted' = [consulted EXCEPT
                                    !.github = Append(@, os_environ.GITHUB_TOKEN)]
                 /\ _github_token' = os_environ.GITHUB_TOKEN
                 /\ Returns(t, "_get_credentials", os_environ.GITHUB_TOKEN)
    /\ UNCHANGED <<_gemini_api_key, credentials_vars>>

\* lines 29-33
GetApiKeyEnter(t) ==
    /\ callers[t].at = "out"
    /\ IF _gemini_api_key # None
       THEN Returns(t, "get_api_key", _gemini_api_key)
       ELSE callers' = [callers EXCEPT ![t] =
                           [fn |-> "get_api_key", at |-> "resolving", ret |-> None]]
    /\ UNCHANGED <<_github_token, _gemini_api_key, consulted, credentials_vars>>

\* lines 35-68
GetApiKeyResolve(t) ==
    /\ callers[t].fn = "get_api_key" /\ callers[t].at = "resolving"
    /\ IF os_environ.AWS_LAMBDA_RUNTIME_API
       THEN IF ~os_environ.GEMINI_PARAM_NAME
            THEN /\ Returns(t, "get_api_key", None)
                 /\ UNCHANGED <<_gemini_api_key, consulted>>
            ELSE /\ Len(consulted.gemini) < MaxConsults
                 /\ \E answer \in SsmAnswers(GeminiKey) :
                      /\ consulted' = [consulted EXCEPT !.gemini = Append(@, answer)]
                      /\ CASE answer = <<"\\ClientError">> ->
                                /\ Returns(t, "get_api_key", None)
                                /\ UNCHANGED _gemini_api_key
                           [] answer = <<"\\BotoCoreError">> ->
                                /\ Raises(t, "get_api_key")
                                /\ UNCHANGED _gemini_api_key
                           [] OTHER ->
                                /\ _gemini_api_key' = answer
                                /\ Returns(t, "get_api_key", answer)
       ELSE IF ~os_environ.dotenv
            THEN /\ Returns(t, "get_api_key", None)
                 /\ UNCHANGED <<_gemini_api_key, consulted>>
            ELSE /\ Len(consulted.gemini) < MaxConsults
                 /\ consulted' = [consulted EXCEPT
                                    !.gemini = Append(@, os_environ.GEMINI_API_KEY)]
                 /\ _gemini_api_key' = os_environ.GEMINI_API_KEY
                 /\ Returns(t, "get_api_key", os_environ.GEMINI_API_KEY)
    /\ UNCHANGED <<_github_token, credentials_vars>>

\* the caller takes the value, or the exception, and may call again
CallerLeaves(t) ==
    /\ callers[t].at \in {"returned", "raised"}
    /\ callers' = [callers EXCEPT ![t] = Idle]
    /\ UNCHANGED <<_github_token, _gemini_api_key, consulted, credentials_vars>>

NextCredentials ==
    \E t \in Callers :
        \/ GetCredentialsEnter(t)
        \/ GetCredentialsResolve(t)
        \/ GetApiKeyEnter(t)
        \/ GetApiKeyResolve(t)
        \/ CallerLeaves(t)

SpecCredentials == InitCredentials /\ [][NextCredentials]_vars

\* ------------------------------------------------------------------ claims
\* The vocabulary of the properties: an invocation has ended, the shape of
\* what it returned, and which collaborators would have answered well.

Done == pc = "done"
Returned == Done /\ outcome = "return"
IsSuccess(r) == DOMAIN r = {"analysis", "suggestions", "from_cache"}
IsFailure(r) ==
    /\ DOMAIN r = {"statusCode", "body"}
    /\ "error_code" \in DOMAIN r.body
CalledOps == {calls[i].op : i \in 1..Len(calls)}

ErrorTaxonomy ==
    {"MISSING_GITHUB_URL", "INVALID_GITHUB_URL", "REPO_NOT_FOUND",
     "GITHUB_TOKEN_INVALID", "RATE_LIMIT_EXCEEDED", "EMPTY_GITHUB_REPO",
     "REQUEST_TIMEOUT", "CONNECTION_ERROR", "SERVICE_UNAVAILABLE",
     "INTERNAL_SERVER_ERROR", "EMPTY_REPOSITORY", "NO_ANALYZABLE_FILES",
     "NO_FILE_CONTENT_FETCHED", "GEMINI_API_KEY_NOT_FOUND",
     "GEMINI_RESPONSE_PARSE_ERROR", "GEMINI_API_ERROR"}

\* the event names the repository acme/widgets
ForAcme == "github_url" \in DOMAIN event /\ event.github_url \in AcmeUrls
MetaOk == env.meta = HttpResponse(200)
CommitOk == env.commit = HttpResponse(200) /\ "sha" \in DOMAIN env.commit_json
TreeOk == env.tree = HttpResponse(200)
\* the stages after the cache lookup all succeed: the tree has files the
\* scorer accepts, every content fetch and the generator answer well
RestOk ==
    /\ TreeOk
    /\ env.tree_json \in {TreeA, TreeBig}
    /\ env.ai.kind # "sdk_error"
    /\ env.content = ContentAllOk
    /\ env.gen = "ok"
CachedItems == ItemsAt(table, KeyAcme, env.commit_json.sha)

\* C1: every invocation of handler ends by returning a structured result,
\* a success object {analysis, suggestions, from_cache} or a failure object
\* {statusCode, body.error_code}; none ends in an uncaught exception.
C1_StructuredResult ==
    Done => /\ outcome = "return"
            /\ IsSuccess(result) \/ IsFailure(result)

\* C2: every failure response a collaborator hands to handler, which returns
\* it as its own result (any response whose status is not 200), carries an
\* error_code of the documented taxonomy, whatever the HTTP status was.
C2_FailureCodeInTaxonomy ==
    (probe.fn \in {"get_repo_metadata", "get_file_tree", "generate_suggestions"}
        /\ probe.response.statusCode # 200)
    => /\ "error_code" \in DOMAIN probe.response.body
       /\ probe.response.body.error_code \in ErrorTaxonomy

\* C3: an event without (or with an empty) github_url is answered 400
\* MISSING_GITHUB_URL, an identifier without a non-empty owner and repository
\* name 400 INVALID_GITHUB_URL, and in both cases no collaborator is invoked.
C3_InputErrorsRejected ==
    Done =>
        /\ Falsy(PyGet(event, "github_url", None))
            => /\ outcome = "return"
               /\ result = ErrorResult("MISSING_GITHUB_URL")
               /\ calls = <<>>
        /\ PyGet(event, "github_url", None) \in {UrlNoOwner, UrlNoSlash}
            => /\ outcome = "return"
               /\ result = ErrorResult("INVALID_GITHUB_URL")
               /\ calls = <<>>

\* C4: when the metadata lookup, the tree lookup or the suggestion generator
\* answers with a status other than 200, the result of handler is exactly that
\* answer and no later stage (the cache write included) runs.
C4_TerminalErrorsVerbatim ==
    (Done /\ ForAcme) =>
        /\ ~MetaOk
            => /\ outcome = "return"
               /\ result = get_repo_metadata(env.meta, env.repo_json)
               /\ CalledOps = {"metadata"}
        /\ (MetaOk /\ ~TreeOk /\ (~CommitOk \/ CachedItems = {}))
            => /\ outcome = "return"
               /\ result = get_file_tree(env.tree, env.tree_json)
               /\ CalledOps \cap {"ai", "content", "generate", "cache_put"} = {}
        /\ (MetaOk /\ TreeOk /\ env.tree_json \in {TreeA, TreeBig}
                /\ env.ai.kind # "sdk_error" /\ env.content = ContentAllOk
                /\ env.gen \in {"no_key", "api_error", "parse_error"}
                /\ (~CommitOk \/ CachedItems = {}))
            => /\ outcome = "return"
               /\ result = generate_suggestions(env.gen, env.suggestions).value
               /\ "cache_put" \notin CalledOps

\* C5: after an invocation for acme/widgets at commit c in which every
\* collaborator succeeds, the table holds under (lowercase "owner/name", c)
\* exactly the analysis and suggestions the invocation returned (written by it,
\* or found by it under that key); an invocation that finds nothing under
\* (key, c) does not answer from the cache.
C5_CacheRoundTrip ==
    (Done /\ ForAcme /\ MetaOk /\ CommitOk /\ env.cache_get = "ok"
          /\ env.cache_put = "ok" /\ RestOk)
    => /\ outcome = "return"
       /\ IsSuccess(result)
       /\ \E item \in CachedItems :
            /\ item.analysis = result.analysis
            /\ item.suggestions = result.suggestions

\* C6: when the commit lookup returns c and the cache holds, as the invocation
\* starts, an entry for (repository key, c), handler returns the stored
\* analysis and suggestions with from_cache = true, leaves the table as it
\* was and invokes neither the tree lookup, the AI selector, the content
\* lookup, the generator nor the cache write.
C6_CacheHitShortCircuits ==
    [][(pc = "running" /\ pc' = "done" /\ ForAcme /\ MetaOk /\ CommitOk
            /\ env.cache_get = "ok" /\ CachedItems # {})
       => /\ outcome' = "return"
          /\ \E item \in CachedItems :
               result' = [analysis |-> item.analysis,
                          suggestions |-> item.suggestions,
                          from_cache |-> TRUE]
          /\ {calls'[i].op : i \in 1..Len(calls')}
                = {"metadata", "commit", "cache_get"}
          /\ table' = table]_vars

\* C7: when the commit lookup answers with a status other than 200 the run
\* goes on with the tree stage, reads and writes no cache entry, and returns
\* the success object with from_cache = false if the other stages succeed.
C7_NoCommitNoCaching ==
    (Done /\ ForAcme /\ MetaOk /\ env.commit # HttpResponse(200) /\ RestOk)
    => /\ outcome = "return"
       /\ IsSuccess(result)
       /\ result.from_cache = FALSE
       /\ "tree" \in CalledOps
       /\ CalledOps \cap {"cache_get", "cache_put"} = {}

\* C9: a cache lookup that raises counts as a miss and a cache write that
\* raises is swallowed: the run still returns the freshly computed
\* {analysis, suggestions, from_cache: false}.
C9_CacheFailuresRecovered ==
    (Done /\ ForAcme /\ MetaOk /\ CommitOk /\ RestOk
          /\ (env.cache_get = "raise" \/ (env.cache_put = "raise" /\ CachedItems = {})))
    => /\ outcome = "return"
       /\ IsSuccess(result)
       /\ result.from_cache = FALSE
       /\ result.suggestions = env.suggestions
       /\ "tree" \in CalledOps

\* C10: a tree lookup that succeeds with zero files ends the run with 400
\* EMPTY_REPOSITORY, and neither the AI selector, the content lookup, the
\* generator nor the cache write is invoked.
C10_EmptyRepository ==
    (Done /\ ForAcme /\ MetaOk /\ TreeOk /\ Blobs(env.tree_json) = <<>>
          /\ (~CommitOk \/ env.cache_get = "raise" \/ CachedItems = {}))
    => /\ outcome = "return"
       /\ result = ErrorResult("EMPTY_REPOSITORY")
       /\ CalledOps \cap {"ai", "content", "generate", "cache_put"} = {}

\* C17: score_file(path, size) is -1 exactly when the lower-cased path matches
\* a skip rule or size exceeds 500,000 (a skipped priority filename such as
\* vendor/package.json included), and is >= 0 for every other path and size,
\* size = 500,000 included.
C17_ScoreMinusOneIffExcluded ==
    probe.fn = "score_file" =>
        LET matches == \E k \in 1..NSkipPatterns :
                          SkipPatternMatches(k, Lower(probe.path))
        IN IF matches \/ probe.size > 500000
           THEN probe.value = -1
           ELSE probe.value >= 0

\* vendor/package.json, a priority filename under a skipped directory, scored -1
C17_Witness ==
    /\ probe.fn = "score_file"
    /\ probe.path = P_vendor_package
    /\ probe.size = 0
    /\ probe.value = -1

\* C18: get_high_value_files(files, max_files) returns at most max_files
\* paths, each of an input file whose score is >= 0, ordered by descending
\* score with the input order kept among equal scores, and they are exactly
\* the first max_files entries of that ordering.
C18_TopFilesByScore ==
    probe.fn = "get_high_value_files" =>
        LET files == probe.files
            out == probe.value
            path(i) == PyGet(files[i], "path", <<>>)
            sc(i) == score_file(path(i), PyGet(files[i], "size", 0))
            kept == {i \in 1..Len(files) : sc(i) >= 0}
            before(j, i) == sc(j) > sc(i) \/ (sc(j) = sc(i) /\ j < i)
            rank(i) == Cardinality({j \in kept : before(j, i)}) + 1
            top == {i \in kept : rank(i) <= probe.max_files}
        IN /\ Len(out) <= probe.max_files
           /\ Len(out) = Cardinality(top)
           /\ \A i \in top : out[rank(i)] = path(i)

\* three files, two of them with the same score, cut to the best two
C18_Witness ==
    /\ probe.fn = "get_high_value_files"
    /\ probe.files = <<Blob(P_main, 800), Blob(P_index, 1200), Blob(P_package, 500)>>
    /\ score_file(P_main, 800) = score_file(P_index, 1200)
    /\ probe.max_files = 2
    /\ probe.value = <<P_package, P_main>>

\* the paths the invocation asked the content lookup for, and the files of
\* the tree that a skip rule or the size limit excludes
FetchedPaths == {calls[i].arg : i \in {j \in 1..Len(calls) : calls[j].op = "content"}}
ExcludedPaths ==
    LET blobs == Blobs(env.tree_json)
    IN {blobs[i].path : i \in {j \in 1..Len(blobs) :
            should_skip(blobs[j].path) \/ blobs[j].size > 500000}}
\* the run gets as far as the tree: no earlier stage ends it and it is not
\* answered from the cache
ReachesTree ==
    /\ Done /\ ForAcme /\ MetaOk /\ TreeOk
    /\ ~(Returned /\ IsSuccess(result) /\ result.from_cache)

RuleBased ==
    get_high_value_files(get_file_tree(env.tree, env.tree_json).body.data.files, 10)

\* C12: when the rule-based selection over the tree has at least 5 paths the
\* AI selector is not invoked and the run goes on to fetch exactly those
\* paths; when it has fewer than 5 on a non-empty tree the AI selector is
\* invoked.
C12_AiOnlyWhenRulesInsufficient ==
    (ReachesTree /\ Blobs(env.tree_json) # <<>>)
    => /\ Len(RuleBased) >= 5
            => /\ "ai" \notin CalledOps
               /\ FetchedPaths = Range(RuleBased)
       /\ Len(RuleBased) < 5 => "ai" \in CalledOps

\* the tree holds a file the scorer accepts or one with a fallback extension
HasAnalyzableFile ==
    LET blobs == Blobs(env.tree_json)
    IN \E i \in 1..Len(blobs) :
          \/ score_file(blobs[i].path, blobs[i].size) >= 0
          \/ \E ext \in fallback_extensions : EndsWith(blobs[i].path, <<ext>>)

\* C14: for a tree with at least one analyzable file and any answer of the AI
\* selector, the run reaches the content lookup with a selection of at least
\* one and at most 10 paths, none of them twice.
C14_SelectionSize ==
    (ReachesTree /\ HasAnalyzableFile /\ env.ai.kind # "sdk_error")
    => /\ FetchedPaths # {}
       /\ Cardinality(FetchedPaths) <= 10
       /\ Cardinality({i \in 1..Len(calls) : calls[i].op = "content"})
            = Cardinality(FetchedPaths)

\* none of the three strategies finds a file in the tree of this invocation
NothingSelectable ==
    LET files == get_file_tree(env.tree, env.tree_json).body.data.files
    IN /\ files # <<>>
       /\ RuleBased = <<>>
       /\ select_important_files(files, env.ai).value = <<>>
       /\ FallbackCandidates(files) = <<>>

\* C15: a non-empty tree from which the rules, the hybrid union and the
\* fallback all select nothing ends the run with 400 NO_ANALYZABLE_FILES and
\* without a content lookup, a generator call or a cache write; and
\* NO_ANALYZABLE_FILES is returned in no other situation.
C15_NoAnalyzableFiles ==
    /\ (ReachesTree /\ env.ai.kind # "sdk_error" /\ NothingSelectable)
        => /\ outcome = "return"
           /\ result = ErrorResult("NO_ANALYZABLE_FILES")
           /\ CalledOps \cap {"content", "generate", "cache_put"} = {}
    /\ (Returned /\ result = ErrorResult("NO_ANALYZABLE_FILES"))
        => (ReachesTree /\ NothingSelectable)

\* the content lookup yields no content for any file of the tree: it fails
\* or reports the file as skipped for its size
NoContentObtainable ==
    LET blobs == Blobs(env.tree_json)
    IN \A i \in 1..Len(blobs) :
          LET path == blobs[i].path
              response == get_file_content(env.content[path].reply, path,
                                           env.content[path].length)
          IN response.statusCode # 200 \/ response.body.data.skipped

\* C16: when every content lookup of the selected paths fails or is skipped,
\* the run ends with 400 NO_FILE_CONTENT_FETCHED and invokes neither the
\* suggestion generator nor the cache write.
C16_NoFileContentFetched ==
    (ReachesTree /\ env.ai.kind # "sdk_error" /\ HasAnalyzableFile
        /\ NoContentObtainable)
    => /\ outcome = "return"
       /\ result = ErrorResult("NO_FILE_CONTENT_FETCHED")
       /\ FetchedPaths # {}
       /\ CalledOps \cap {"generate", "cache_put"} = {}

TreeFiles == get_file_tree(env.tree, env.tree_json).body.data.files
AiValid == select_important_files(TreeFiles, env.ai).value
FetchedInOrder ==
    LET at == {i \in 1..Len(calls) : calls[i].op = "content"}
        nth(k) == CHOOSE i \in at : Cardinality({j \in at : j < i}) = k - 1
    IN [k \in 1..Cardinality(at) |-> calls[nth(k)].arg]
\* the first up to 5 tree paths, in tree order, with a source-code extension
FirstSourceFiles ==
    LET src == {i \in 1..Len(TreeFiles) :
                   \E ext \in {".py", ".js", ".ts", ".java", ".go", ".rs", ".cpp", ".c"} :
                       TreeFiles[i].path[Len(TreeFiles[i].path)] = ext}
        nth(k) == CHOOSE i \in src : Cardinality({j \in src : j < i}) = k - 1
        n == IF Cardinality(src) < 5 THEN Cardinality(src) ELSE 5
    IN [k \in 1..n |-> TreeFiles[nth(k)].path]
FreshSuccess == Returned /\ IsSuccess(result) /\ result.from_cache = FALSE

\* C21: the fallback decides the selection only when the rule-based selection
\* and the hybrid union are both empty; then the content lookup is asked for
\* the first up to 5 source files of the tree, in tree order, and the method
\* is "fallback".  With a non-empty rule-based or hybrid selection the run
\* goes on to the content lookup with that selection and its method tag.
C21_FallbackOnlyFromEmpty ==
    (ReachesTree /\ env.ai.kind # "sdk_error" /\ TreeFiles # <<>>)
    => /\ (RuleBased = <<>> /\ AiValid = <<>>)
            => /\ FetchedInOrder = FirstSourceFiles
               /\ (FreshSuccess /\ FirstSourceFiles # <<>>)
                     => result.analysis.selection_method = "fallback"
       /\ (RuleBased # <<>> \/ AiValid # <<>>)
            => /\ FetchedPaths # {}
               /\ FetchedPaths \subseteq Range(RuleBased) \cup Range(AiValid)
               /\ FreshSuccess
                     => result.analysis.selection_method \in {"rule-based", "hybrid"}

\* the rule-based paths together with the AI selector's tree paths
UnionPaths == Range(RuleBased) \cup Range(AiValid)
UnionGrows ==
    (IF Cardinality(UnionPaths) < 10 THEN Cardinality(UnionPaths) ELSE 10)
        > Len(RuleBased)

\* C22: with fewer than 5 rule-based paths (and at least one, so that the
\* fallback is not involved) a run that succeeds reports the method "hybrid"
\* exactly when the union of the rule-based paths and the AI selector's tree
\* paths, cut to 10, is larger than the rule-based selection; otherwise it
\* fetches the rule-based selection and reports "rule-based".
C22_HybridTag ==
    (ReachesTree /\ env.ai.kind # "sdk_error" /\ Len(RuleBased) \in 1..4
        /\ env.content = ContentAllOk /\ env.gen = "ok")
    => /\ FreshSuccess
       /\ result.analysis.selection_method
            = (IF UnionGrows THEN "hybrid" ELSE "rule-based")
       /\ ~UnionGrows => FetchedInOrder = RuleBased

\* C23: when the AI selector's tree paths enlarge a rule-based selection of
\* fewer than 5 paths, the selection handed to the content lookup still holds
\* every rule-based path, also when the answer names 10 or more tree paths
\* and the union is cut to 10.
C23_HybridKeepsRuleBased ==
    (ReachesTree /\ env.ai.kind # "sdk_error" /\ Len(RuleBased) \in 1..4
        /\ UnionGrows)
    => /\ FetchedPaths # {}
       /\ Range(RuleBased) \subseteq FetchedPaths

\* the selected paths whose content lookup returns 200 without the skipped
\* marker, in the order they were asked for
ContentObtained(path) ==
    LET response == get_file_content(env.content[path].reply, path,
                                     env.content[path].length)
    IN response.statusCode = 200 /\ ~response.body.data.skipped
ObtainedInOrder == SelectSeq(FetchedInOrder, ContentObtained)

\* C24: with some content lookups failing and some reporting the file as
\* skipped, the lookup is still asked for every selected path, and the run
\* reports as analysis.files_analyzed exactly the paths whose lookup returned
\* content (400 NO_FILE_CONTENT_FETCHED when there is none).
C24_PerFileFailuresNonTerminal ==
    (ReachesTree /\ env.ai.kind # "sdk_error" /\ env.tree_json \in {TreeA, TreeBig}
        /\ env.content = ContentMixed /\ env.gen = "ok")
    => /\ Range(RuleBased) \subseteq FetchedPaths
       /\ ObtainedInOrder # FetchedInOrder
       /\ IF ObtainedInOrder = <<>>
          THEN Returned /\ result = ErrorResult("NO_FILE_CONTENT_FETCHED")
          ELSE FreshSuccess /\ result.analysis.files_analyzed = ObtainedInOrder

\* the three parts of a score, read off the path: the priority of the
\* lower-cased last segment, the bonus of the first entry of PATH_PATTERNS (in
\* table order) whose directory occurs between two "/", and 5 for a path with
\* at most one "/"
FilenameBonus(path) ==
    LET lower == Lower(path)
        cut == {i \in 1..Len(lower) : lower[i] = "/"}
        start == IF cut = {} THEN 1
                 ELSE (CHOOSE i \in cut : \A j \in cut : j <= i) + 1
        name == SubSeq(lower, start, Len(lower))
        rows == {row \in FileScoreTable : row[1] = name}
    IN IF rows = {} THEN 0 ELSE (CHOOSE row \in rows : TRUE)[2]
FirstPatternBonus(path) ==
    LET lower == Lower(path)
        hits == {k \in 1..Len(PATH_PATTERNS) :
                    \E i \in 1..(Len(lower) - 2) :
                        /\ lower[i] = "/" /\ lower[i + 2] = "/"
                        /\ lower[i + 1] = PATH_PATTERNS[k][1]}
    IN IF hits = {} THEN 0
       ELSE PATH_PATTERNS[CHOOSE k \in hits : \A h \in hits : k <= h][2]
DepthBonus(path) ==
    IF Cardinality({i \in 1..Len(path) : path[i] = "/"}) <= 1 THEN 5 ELSE 0

\* C25: for every (path, size) that is not excluded, score_file is the
\* filename bonus plus the bonus of the first matching path pattern in table
\* order (never a sum of several) plus the depth bonus; so of two such files
\* with equal pattern and depth bonus the one with the higher filename
\* priority has the strictly higher score.
C25_ScoreIsSumOfThreeBonuses ==
    (probe.fn = "score_file" /\ probe.value # -1)
    => /\ probe.value = FilenameBonus(probe.path) + FirstPatternBonus(probe.path)
                            + DepthBonus(probe.path)
       /\ \A other \in ScorerPaths :
            (/\ score_file(other, probe.size) # -1
             /\ FirstPatternBonus(other) = FirstPatternBonus(probe.path)
             /\ DepthBonus(other) = DepthBonus(probe.path)
             /\ FilenameBonus(other) < FilenameBonus(probe.path))
            => score_file(other, probe.size) < probe.value

\* web/src/api/index.js matches "/src/" and "/api/": 90 for index.js and 40
\* for "/api/", the earlier entry of the table
C25_Witness ==
    /\ probe.fn = "score_file"
    /\ probe.path = P_nested
    /\ probe.value = 130

C27_OnlyUnexpiredServed ==
    (probe.fn = "get_from_cache" /\ probe.value # NoneObj)
    => probe.now <= probe.value.ttl

\* what a call returns for an answer of its credential source
Resolved(answer) ==
    IF answer \in {<<"\\ClientError">>, <<"\\BotoCoreError">>} THEN None ELSE answer

\* C28: each credential is resolved once and reused: neither credential
\* source is consulted more than once in the life of the process, and every
\* call that returns after a resolution returns what the first resolution
\* obtained, None included.
C28_ResolvedOnce ==
    /\ Len(consulted.github) <= 1
    /\ Len(consulted.gemini) <= 1
    /\ \A t \in Callers :
        /\ (callers[t].fn = "_get_credentials" /\ callers[t].at = "returned"
                /\ consulted.github # <<>>)
           => callers[t].ret = Resolved(consulted.github[1])
        /\ (callers[t].fn = "get_api_key" /\ callers[t].at = "returned"
                /\ consulted.gemini # <<>>)
           => callers[t].ret = Resolved(consulted.gemini[1])

====
